---- MODULE Spec2Model ----
(***************************************************************************)
(* Wallet backends of lnbits: LNbitsWallet (lnbits/wallets/lnbits.py),     *)
(* LNPayWallet (lnbits/wallets/lnpay.py) and ZBDWallet                     *)
(* (lnbits/wallets/zbd.py).                                                *)
(*                                                                         *)
(* Six state machines share the module:                                    *)
(*   SpecStream  LNbitsWallet.paid_invoices_stream, the reconnecting       *)
(*               server-sent-events reader;                                *)
(*   SpecRelay   LNPayWallet / ZBDWallet paid_invoices_stream, the queue   *)
(*               an external webhook receiver feeds;                       *)
(*   Spec        the request/response operations of the three adapters     *)
(*               (status, create_invoice, pay_invoice, get_invoice_status, *)
(*               get_payment_status) against every provider outcome;       *)
(*   SpecRuns    several runs of the LNPayWallet / ZBDWallet stream on one *)
(*               adapter, each installing its own queue;                   *)
(*   SpecPoll    get_payment_status polls of one payment, in flight        *)
(*               together, while the provider settles it;                  *)
(*   SpecCleanup cleanup() of the three adapters.                          *)
(***************************************************************************)
EXTENDS Integers, Sequences, FiniteSets, TLC

VARIABLES
    \* ---- LNbitsWallet.paid_invoices_stream
    sse_pc,        \* position of the generator
    sse_trigger,   \* the local sse_trigger
    client_open,   \* the httpx.AsyncClient of the current attempt is open
    conn,          \* number of connections opened so far
    received,      \* history: <<connection, line>> of every line read
    emitted,       \* history: <<connection, value>> of every value yielded
    failures,      \* history: number of transport failures so far
    sse_exc,       \* the exception that left the generator, or "none"
    cancelled,     \* history: the consumer's task was cancelled
    \* ---- LNPayWallet / ZBDWallet paid_invoices_stream
    relay_wallet,  \* which of the two adapters
    relay_pc,      \* position of the generator
    queue,         \* self.queue, or NoQueue while the attribute is not set
    pushed,        \* history: values put into self.queue
    yielded,       \* history: values the stream yielded
    push_errors,   \* history: pushes that found no queue
    relay_net,     \* network calls made by the stream
    \* ---- several runs of that stream on one adapter
    gens,          \* the generator objects of paid_invoices_stream
    queue_epoch,   \* how many queue objects self.queue has been so far
    old_queues,    \* what the replaced queue objects hold
    push_log,      \* history: <<queue object, value>> of every put
    yield_log,     \* history: generator, queue object, value of every yield
    \* ---- request/response operations
    call,          \* the last operation invoked: adapter, method, arguments
    outcome,       \* what the provider did for it
    result,        \* what the operation returned or raised
    net_calls,     \* network calls the operation made
    \* ---- get_payment_status polls of one checking_id
    provider_settled, \* the provider's state of the payment
    polls,         \* history: every poll, its answer and its result
    \* ---- cleanup()
    client_closed, \* per adapter: self.client is closed
    cleanup_log    \* history: every call of cleanup() and how it ended

streamVars == <<sse_pc, sse_trigger, client_open, conn, received, emitted,
                failures, sse_exc, cancelled>>
runVars    == <<gens, queue_epoch, old_queues, push_log, yield_log>>
relayVars  == <<relay_wallet, relay_pc, queue, pushed, yielded, push_errors,
                relay_net, runVars>>
rpcVars    == <<call, outcome, result, net_calls>>
pollVars   == <<provider_settled, polls>>
cleanupVars == <<client_closed, cleanup_log>>
callVars   == <<rpcVars, pollVars, cleanupVars>>
vars       == <<streamVars, relayVars, callVars>>

----------------------------------------------------------------------------
(* Bounds of the model *)

\* lines read by the stream, over all its connections
MaxLines == 3
\* connections the stream opens
MaxConns == 3
\* values the webhook relay pushes
MaxPush == 3
\* runs of the webhook relay stream on one adapter
MaxRuns == 2
\* get_payment_status polls of one checking_id
MaxPolls == 3
\* calls of cleanup(), over the three adapters
MaxCleanups == 3

----------------------------------------------------------------------------
(* Python values *)

\* A Python value carries its type: equality never compares two types.
PyNone     == [t |-> "None", v |-> "None"]
PyBool(b)  == [t |-> "bool", v |-> b]
PyInt(n)   == [t |-> "int", v |-> n]
\* A str (or bytes) is the sequence of its pieces, each standing for one
\* character.
PyStr(s)   == [t |-> "str", v |-> s]
\* A dict is the set of its <<key, value>> items.
PyDict(kv) == [t |-> "dict", v |-> kv]

Keys(d) == {item[1] : item \in d.v}
Value(d, key) == (CHOOSE item \in d.v : item[1] = key)[2]

\* bool(x)
Truthy(x) ==
    CASE x.t = "None" -> FALSE
      [] x.t = "bool" -> x.v
      [] x.t = "int"  -> x.v # 0
      [] x.t = "str"  -> Len(x.v) > 0
      [] x.t = "dict" -> x.v # {}

\* x is True
IsTrue(x) == x = PyBool(TRUE)

\* The outcome of evaluating an expression: a value, or a raised exception.
Ok(v)     == [exc |-> "none", val |-> v]
Raise(e)  == [exc |-> e, val |-> PyNone]
Raised(x) == x.exc # "none"

\* data[key]
Subscript(data, key) ==
    IF data.t # "dict" THEN Raise("TypeError")
    ELSE IF key \in Keys(data) THEN Ok(Value(data, key))
    ELSE Raise("KeyError")

\* data[key1][key2]
Subscript2(data, key1, key2) ==
    LET inner == Subscript(data, key1) IN
    IF Raised(inner) THEN inner ELSE Subscript(inner.val, key2)

\* data.get(key, default)
DictGet(data, key, default) ==
    IF data.t # "dict" THEN Raise("AttributeError")
    ELSE IF key \in Keys(data) THEN Ok(Value(data, key))
    ELSE Ok(default)

\* key in data, for a dict
Contains(data, key) == key \in Keys(data)

\* s[:n]
SliceTo(s, n) == PyStr(SubSeq(s.v, 1, IF Len(s.v) < n THEN Len(s.v) ELSE n))

\* A text on the wire: what it parses to as JSON, when it does.
JsonText(d) == [valid |-> TRUE, json |-> d, text |-> PyStr(<<"{", "}">>)]
NotJson     == [valid |-> FALSE, json |-> PyNone, text |-> PyStr(<<"<", "html", ">">>)]

\* json.loads(text) and r.json()
json_loads(text) ==
    IF text.valid THEN Ok(text.json) ELSE Raise("JSONDecodeError")

\* str.startswith: a line is the sequence of its parts, a prefix likewise
StartsWith(line, prefix) ==
    /\ Len(line) >= Len(prefix)
    /\ \A i \in 1..Len(prefix) : line[i] = prefix[i]

----------------------------------------------------------------------------
(* LNbitsWallet.paid_invoices_stream *)

Hashes == {"abc123", "def456"}

EventPaymentReceived == <<"event: payment-received">>
DataPrefix           == <<"data:">>

Payloads ==
    {JsonText(PyDict({<<"payment_hash", PyStr(<<h>>)>>})) : h \in Hashes}
        \cup {JsonText(PyDict({<<"amount", PyInt(1)>>})), NotJson}

\* The lines a provider can send: the marker, other events, comments, and
\* data lines with every kind of payload.
Lines ==
    {EventPaymentReceived, <<"event: payment-sent">>, <<": keepalive">>}
        \cup {<<"data:", p>> : p \in Payloads}

\* What the transport raises on a disconnect, a read timeout, a connection
\* error.
TransportErrors == {"OSError", "ReadError", "ConnectError", "ReadTimeout"}

CaughtNoReadError(exc) ==
    exc \in {"OSError", "ConnectError", "ReadTimeout"}

CaughtBaseException(exc) == TRUE

\* except (OSError, httpx.ReadError, httpx.ConnectError, httpx.ReadTimeout)
Caught(exc) ==
    exc \in {"OSError", "ReadError", "ConnectError", "ReadTimeout"}

\* An exception raised inside the try block: both "async with" blocks exit
\* (the client is closed); a caught one falls through to the log line and the
\* sleep, any other leaves the generator.
Propagate(exc) ==
    /\ client_open' = FALSE
    /\ IF Caught(exc)
       THEN /\ sse_pc' = "Backoff"
            /\ sse_exc' = sse_exc
       ELSE /\ sse_pc' = IF exc = "CancelledError" THEN "Cancelled" ELSE "Raised"
            /\ sse_exc' = exc

\* while True: async with httpx.AsyncClient(...) as client
OpenClient ==
    /\ conn < MaxConns
    /\ conn' = conn + 1
    /\ client_open' = TRUE
    /\ sse_pc' = "Connecting"

\* The consumer asks for the first value: the generator body starts.
SSEStart ==
    /\ UNCHANGED <<relayVars, callVars>>
    /\ sse_pc = "Created"
    /\ OpenClient
    /\ UNCHANGED <<sse_trigger, received, emitted, failures, sse_exc, cancelled>>

\* async with client.stream("GET", url, ...) as r: sse_trigger = False
SSEConnected ==
    /\ UNCHANGED <<relayVars, callVars>>
    /\ sse_pc = "Connecting"
    /\ sse_pc' = "Streaming"
    /\ sse_trigger' = FALSE
    /\ UNCHANGED <<client_open, conn, received, emitted, failures, sse_exc,
                   cancelled>>

\* client.stream(...) fails to connect
SSEConnectFail ==
    /\ UNCHANGED <<relayVars, callVars>>
    /\ sse_pc = "Connecting"
    /\ \E exc \in TransportErrors : Propagate(exc)
    /\ failures' = failures + 1
    /\ UNCHANGED <<sse_trigger, conn, received, emitted, cancelled>>

\* one iteration of "async for line in r.aiter_lines()"
SSELine ==
    /\ UNCHANGED <<relayVars, callVars>>
    /\ sse_pc = "Streaming"
    /\ Len(received) < MaxLines
    /\ \E line \in Lines :
        /\ received' = Append(received, <<conn, line>>)
        /\ IF StartsWith(line, EventPaymentReceived)
           THEN /\ sse_trigger' = TRUE
                /\ UNCHANGED <<sse_pc, client_open, emitted, sse_exc>>
           ELSE IF sse_trigger /\ StartsWith(line, DataPrefix)
           THEN LET data == json_loads(line[2]) IN
                IF Raised(data)
                THEN /\ Propagate(data.exc)
                     /\ UNCHANGED <<sse_trigger, emitted>>
                ELSE LET hash == Subscript(data.val, "payment_hash") IN
                     /\ sse_trigger' = FALSE
                     /\ IF Raised(hash)
                        THEN /\ Propagate(hash.exc)
                             /\ UNCHANGED emitted
                        ELSE /\ emitted' = Append(emitted, <<conn, hash.val>>)
                             /\ UNCHANGED <<sse_pc, client_open, sse_exc>>
           ELSE /\ sse_trigger' = FALSE
                /\ UNCHANGED <<sse_pc, client_open, emitted, sse_exc>>
    /\ UNCHANGED <<conn, failures, cancelled>>

\* r.aiter_lines() raises: the connection dropped or the read timed out
SSEReadFail ==
    /\ UNCHANGED <<relayVars, callVars>>
    /\ sse_pc = "Streaming"
    /\ \E exc \in TransportErrors : Propagate(exc)
    /\ failures' = failures + 1
    /\ UNCHANGED <<sse_trigger, conn, received, emitted, cancelled>>

\* r.aiter_lines() ends: the provider closed the response body in order. The
\* with blocks exit; logger.error(...); await asyncio.sleep(5)
SSEEndOfBody ==
    /\ UNCHANGED <<relayVars, callVars>>
    /\ sse_pc = "Streaming"
    /\ client_open' = FALSE
    /\ sse_pc' = "Backoff"
    /\ UNCHANGED <<sse_trigger, conn, received, emitted, failures, sse_exc,
                   cancelled>>

\* asyncio.sleep(5) returns: the next iteration of while True
SSEBackoffDone ==
    /\ UNCHANGED <<relayVars, callVars>>
    /\ sse_pc = "Backoff"
    /\ OpenClient
    /\ UNCHANGED <<sse_trigger, received, emitted, failures, sse_exc, cancelled>>

\* The consumer's task is cancelled: CancelledError is raised at the await
\* the generator is suspended in (connect, line read or sleep).
SSECancel ==
    /\ UNCHANGED <<relayVars, callVars>>
    /\ sse_pc \in {"Connecting", "Streaming", "Backoff"}
    /\ Propagate("CancelledError")
    /\ cancelled' = TRUE
    /\ UNCHANGED <<sse_trigger, conn, received, emitted, failures>>

NextStream ==
    \/ SSEStart
    \/ SSEConnected
    \/ SSEConnectFail
    \/ SSELine
    \/ SSEReadFail
    \/ SSEEndOfBody
    \/ SSEBackoffDone
    \/ SSECancel

----------------------------------------------------------------------------
(* Properties of LNbitsWallet.paid_invoices_stream, under SpecStream *)

\* Line i of the log is a "data:" line right after a payment-received marker
\* read on the same connection.
PairAt(log, i) ==
    /\ i > 1
    /\ log[i][1] = log[i - 1][1]
    /\ StartsWith(log[i - 1][2], EventPaymentReceived)
    /\ StartsWith(log[i][2], DataPrefix)

Pairs(log) == {i \in 1..Len(log) : PairAt(log, i)}

\* The payload of data line i is a JSON object with a payment_hash.
WellFormedAt(log, i) ==
    /\ log[i][2][2].valid
    /\ Contains(log[i][2][2].json, "payment_hash")

KthOf(S, k) == CHOOSE i \in S : Cardinality({j \in S : j < i}) = k - 1

\* C1: a value is emitted if and only if a "data:" line immediately follows
\* an "event: payment-received" line on the same connection: one value per
\* such pair, in order, each the payment_hash of the pair's data line.
C1_EmittedIffPair ==
    /\ Len(emitted) = Cardinality(Pairs(received))
    /\ \A k \in 1..Len(emitted) :
        LET i == KthOf(Pairs(received), k) IN
        /\ WellFormedAt(received, i)
        /\ emitted[k] = <<received[i][1], Value(received[i][2][2].json, "payment_hash")>>

\* The same, for the logs in which every such pair carries a JSON object with
\* a payment_hash.
StreamEmitsWellFormedPairs ==
    (\A i \in Pairs(received) : WellFormedAt(received, i))
        => C1_EmittedIffPair

C3_NoTerminalState ==
    \/ cancelled
    \/ sse_pc \in {"Created", "Connecting", "Streaming", "Backoff"}

\* C5: once the consumer's task is cancelled the generator is finished and its
\* client closed, and from then on no connection is opened and no value is
\* emitted.
C5_CancelStopsLoop ==
    /\ [](cancelled => sse_pc = "Cancelled" /\ ~client_open)
    /\ [][cancelled' => conn' = conn /\ emitted' = emitted]_vars

\* Cancelled while streaming, while connecting and while sleeping, each after
\* a reconnect.
C5_Witness ==
    /\ cancelled
    /\ conn >= 2
    /\ emitted # <<>>

----------------------------------------------------------------------------
(* LNPayWallet.paid_invoices_stream and ZBDWallet.paid_invoices_stream *)

RelayWallets == {"LNPayWallet", "ZBDWallet"}

\* The adapter before the first run of the stream: no attribute "queue".
NoQueue == [exists |-> FALSE, maxsize |-> 0, items |-> <<>>]

\* asyncio.Queue(0)
NewQueue == [exists |-> TRUE, maxsize |-> 0, items |-> <<>>]

\* asyncio.Queue.full(): a maxsize of 0 or less is no limit
QueueFull(q) == q.maxsize > 0 /\ Len(q.items) >= q.maxsize

QueueGetLast(q) ==
    [value |-> q.items[Len(q.items)],
     queue |-> [q EXCEPT !.items = SubSeq(q.items, 1, Len(q.items) - 1)]]

\* self.queue.get() on a queue that holds something: the oldest item
QueueGet(q) ==
    [value |-> Head(q.items), queue |-> [q EXCEPT !.items = Tail(q.items)]]

\* The consumer asks for the first value: self.queue = asyncio.Queue(0), and
\* the generator waits in self.queue.get().
RelayStart ==
    /\ UNCHANGED <<streamVars, callVars>>
    /\ relay_pc = "Created"
    /\ queue' = NewQueue
    /\ relay_pc' = "Waiting"
    /\ UNCHANGED <<relay_wallet, pushed, yielded, push_errors, relay_net>>
    /\ UNCHANGED runVars

\* value = await self.queue.get(); yield value
RelayGet ==
    /\ UNCHANGED <<streamVars, callVars>>
    /\ relay_pc = "Waiting"
    /\ queue.items # <<>>
    /\ LET got == QueueGet(queue) IN
        /\ queue' = got.queue
        /\ yielded' = Append(yielded, got.value)
    /\ UNCHANGED <<relay_wallet, relay_pc, pushed, push_errors, relay_net>>
    /\ UNCHANGED runVars

\* The webhook receiver delivers a settled payment hash: put on the
\* adapter's queue. Without the attribute the put fails in the receiver.
RelayPush ==
    /\ UNCHANGED <<streamVars, callVars>>
    /\ Len(pushed) + push_errors < MaxPush
    /\ \E v \in Hashes :
        IF queue.exists
        THEN /\ ~QueueFull(queue)
             /\ queue' = [queue EXCEPT !.items = Append(@, v)]
             /\ pushed' = Append(pushed, v)
             /\ UNCHANGED push_errors
        ELSE /\ push_errors' = push_errors + 1
             /\ UNCHANGED <<queue, pushed>>
    /\ UNCHANGED <<relay_wallet, relay_pc, yielded, relay_net>>
    /\ UNCHANGED runVars

NextRelay ==
    \/ RelayStart
    \/ RelayGet
    \/ RelayPush

----------------------------------------------------------------------------
(* Properties of the relay stream, under SpecRelay *)

\* C4: every value put on the adapter's queue is yielded by the stream exactly
\* once and in the order of the puts: what was put is always what was yielded
\* followed by what still waits, and the n-th put leads to the n-th yield. A
\* put never finds the queue full, and the stream makes no network call.
C4_RelayDelivers ==
    /\ [](queue.exists =>
            /\ pushed = yielded \o queue.items
            /\ ~QueueFull(queue)
            /\ relay_net = 0)
    /\ \A n \in 1..MaxPush : (Len(pushed) >= n) ~> (Len(yielded) >= n)

\* Two different values were yielded while a third still waits in the queue.
C4_Witness ==
    /\ Len(yielded) >= 2
    /\ yielded[1] # yielded[2]
    /\ queue.items # <<>>

----------------------------------------------------------------------------
(* Request/response operations *)

\* ---- lnbits.wallets.base: the values the operations return
StatusResponse(error_message, balance_msat) ==
    [kind |-> "StatusResponse", error_message |-> error_message,
     balance_msat |-> balance_msat]
InvoiceResponseSuccess(checking_id, payment_request) ==
    [kind |-> "InvoiceResponseSuccess", checking_id |-> checking_id,
     payment_request |-> payment_request]
InvoiceResponseFailed(error_message) ==
    [kind |-> "InvoiceResponseFailed", error_message |-> error_message]
PaymentResponseSuccess(checking_id, fee_msat, preimage) ==
    [kind |-> "PaymentResponseSuccess", checking_id |-> checking_id,
     fee_msat |-> fee_msat, preimage |-> preimage]
PaymentResponseFailed(error_message) ==
    [kind |-> "PaymentResponseFailed", error_message |-> error_message]
PaymentStatusSuccess(fee_msat, preimage) ==
    [kind |-> "PaymentStatusSuccess", fee_msat |-> fee_msat,
     preimage |-> preimage]
PaymentStatusFailed ==
    [kind |-> "PaymentStatusFailed", fee_msat |-> PyNone, preimage |-> PyNone]
PaymentStatusPending ==
    [kind |-> "PaymentStatusPending", fee_msat |-> PyNone, preimage |-> PyNone]

\* Wallet.payment_status(status, fee_msat, preimage): the adapter's
\* payment_status_map decides; a status in none of its lists is pending.
payment_status(map, status, fee_msat, preimage) ==
    IF status \in map.success THEN PaymentStatusSuccess(fee_msat, preimage)
    ELSE IF status \in map.failed THEN PaymentStatusFailed
    ELSE PaymentStatusPending

\* ---- what an operation does: return a value or raise, after so many
\* requests to the provider
Returns(value, requests) == [raised |-> "none", value |-> value, net |-> requests]
Raises(exc, requests) ==
    [raised |-> exc, value |-> [kind |-> "raise", exc |-> exc], net |-> requests]
RaisesWith(exc, arg, requests) ==
    [raised |-> exc, value |-> [kind |-> "raise", exc |-> exc, arg |-> arg],
     net |-> requests]

\* ---- what the provider does with a request: the transport raises, or a
\* response arrives
RequestErrors == {"ConnectError", "ReadTimeout"}
StatusCodes == {200, 201, 404, 500}

EmptyText == [valid |-> FALSE, json |-> PyNone, text |-> PyStr(<<>>)]
LongText  == [valid |-> FALSE, json |-> PyNone,
              text |-> PyStr([i \in 1..300 |-> "x"])]

TransportFailure(exc) == [exc |-> exc, status_code |-> 0, body |-> EmptyText]
Response(code, body)  == [exc |-> "none", status_code |-> code, body |-> body]

Responses(bodies) ==
    {TransportFailure(exc) : exc \in RequestErrors}
        \cup {Response(code, body) : code \in StatusCodes, body \in bodies}

\* httpx.Response.is_error: a 4xx or 5xx status
is_error(r) == r.status_code >= 400 /\ r.status_code <= 599

\* httpx.RequestError is the base class of what the transport raises
IsRequestError(exc) == exc \in {"ConnectError", "ReadTimeout", "RequestError"}

Endpoint == PyStr(<<"https://provider">>)

Obj(items) == JsonText(PyDict(items))
Text(s) == PyStr(<<s>>)

----------------------------------------------------------------------------
(* LNbitsWallet *)

LNbitsWallet_payment_status_map ==
    [success |-> {PyBool(TRUE)}, failed |-> {PyBool(FALSE)}, pending |-> {PyNone}]

LNbitsWallet_status(rs) ==
    LET r == rs[1] IN
    IF r.exc # "none"
    THEN Returns(StatusResponse(
            PyStr(<<"Failed to connect to ">> \o Endpoint.v \o <<" due to: ", r.exc>>),
            PyInt(0)), 1)
    ELSE LET data == json_loads(r.body) IN
    IF Raised(data)
    THEN Returns(StatusResponse(
            PyStr(<<"Failed to connect to ">> \o Endpoint.v \o <<", got: '">>
                  \o SliceTo(r.body.text, 200).v \o <<"...'">>),
            PyInt(0)), 1)
    ELSE IF is_error(r)
    THEN LET detail == Subscript(data.val, "detail") IN
         IF Raised(detail) THEN Raises(detail.exc, 1)
         ELSE Returns(StatusResponse(detail.val, PyInt(0)), 1)
    ELSE LET balance == Subscript(data.val, "balance") IN
         IF Raised(balance) THEN Raises(balance.exc, 1)
         ELSE Returns(StatusResponse(PyNone, balance.val), 1)

LNbitsWallet_create_invoice(args, rs) ==
    LET r == rs[1] IN
    IF r.exc # "none" THEN Raises(r.exc, 1)
    ELSE LET data == json_loads(r.body) IN
    IF Raised(data) THEN Raises(data.exc, 1)
    ELSE IF is_error(r)
    THEN LET detail == Subscript(data.val, "detail") IN
         IF Raised(detail) THEN Raises(detail.exc, 1)
         ELSE Returns(InvoiceResponseFailed(detail.val), 1)
    ELSE LET checking_id == Subscript(data.val, "checking_id")
             payment_request == Subscript(data.val, "payment_request") IN
         IF Raised(checking_id) THEN Raises(checking_id.exc, 1)
         ELSE IF Raised(payment_request) THEN Raises(payment_request.exc, 1)
         ELSE Returns(InvoiceResponseSuccess(checking_id.val,
                                             payment_request.val), 1)

LNbitsWallet_get_invoice_status(rs) ==
    LET r == rs[1]
        \* except Exception: return PaymentStatusPending()
        except == Returns(PaymentStatusPending, 1)
    IN
    IF r.exc # "none" THEN except
    \* r.raise_for_status()
    ELSE IF is_error(r) THEN except
    ELSE LET data == json_loads(r.body) IN
    IF Raised(data) THEN except
    ELSE LET details == DictGet(data.val, "details", PyNone) IN
    IF Raised(details) THEN except
    ELSE LET pending ==
                IF Truthy(details.val)
                THEN DictGet(details.val, "pending", PyBool(FALSE))
                ELSE Ok(PyBool(FALSE))
         IN
    IF Raised(pending) THEN except
    ELSE IF Truthy(details.val) /\ IsTrue(pending.val)
    THEN Returns(PaymentStatusPending, 1)
    ELSE LET paid == DictGet(data.val, "paid", PyBool(FALSE)) IN
    IF IsTrue(paid.val) THEN Returns(PaymentStatusSuccess(PyNone, PyNone), 1)
    ELSE Returns(PaymentStatusFailed, 1)

LNbitsWallet_get_payment_status(rs) ==
    LET r == rs[1] IN
    IF r.exc # "none" THEN Raises(r.exc, 1)
    ELSE IF is_error(r) THEN Returns(PaymentStatusPending, 1)
    ELSE LET data == json_loads(r.body) IN
    IF Raised(data) THEN Raises(data.exc, 1)
    ELSE IF ~Contains(data.val, "paid") \/ ~Truthy(Value(data.val, "paid"))
    THEN Returns(PaymentStatusPending, 1)
    ELSE IF ~Contains(data.val, "details")
    THEN Returns(PaymentStatusPending, 1)
    ELSE LET fee == Subscript2(data.val, "details", "fee")
             preimage == Subscript(data.val, "preimage") IN
         IF Raised(fee) THEN Raises(fee.exc, 1)
         ELSE IF Raised(preimage) THEN Raises(preimage.exc, 1)
         ELSE Returns(PaymentStatusSuccess(fee.val, preimage.val), 1)

LNbitsWallet_pay_invoice(args, rs) ==
    LET r == rs[1] IN
    IF r.exc # "none" THEN Raises(r.exc, 1)
    ELSE IF is_error(r)
    THEN LET data == json_loads(r.body) IN
         IF Raised(data) THEN Raises(data.exc, 1)
         ELSE LET detail == Subscript(data.val, "detail") IN
              IF Raised(detail) THEN Raises(detail.exc, 1)
              ELSE Returns(PaymentResponseFailed(detail.val), 1)
    ELSE LET data == json_loads(r.body) IN
    IF Raised(data) THEN Raises(data.exc, 1)
    ELSE LET checking_id == Subscript(data.val, "payment_hash") IN
    IF Raised(checking_id) THEN Raises(checking_id.exc, 1)
    ELSE \* we do this to get the fee and preimage
         LET payment == LNbitsWallet_get_payment_status(Tail(rs)) IN
         IF payment.raised # "none" THEN Raises(payment.raised, 2)
         ELSE Returns(PaymentResponseSuccess(checking_id.val,
                                             payment.value.fee_msat,
                                             payment.value.preimage), 2)

----------------------------------------------------------------------------
(* LNPayWallet *)

LNPayWallet_payment_status_map ==
    [success |-> {PyInt(1)}, failed |-> {PyInt(-1)}, pending |-> {PyInt(0)}]

WalletUrl == PyStr(<<"/wallet/", "key">>)

LNPayWallet_status(rs) ==
    LET r == rs[1] IN
    IF r.exc # "none"
    THEN IF IsRequestError(r.exc)
         THEN Returns(StatusResponse(
                PyStr(<<"Unable to connect to '">> \o WalletUrl.v \o <<"'">>),
                PyInt(0)), 1)
         ELSE Raises(r.exc, 1)
    ELSE IF is_error(r)
    THEN Returns(StatusResponse(SliceTo(r.body.text, 250), PyInt(0)), 1)
    ELSE LET data == json_loads(r.body) IN
    IF Raised(data) THEN Raises(data.exc, 1)
    ELSE LET name == Subscript2(data.val, "statusType", "name") IN
    IF Raised(name) THEN Raises(name.exc, 1)
    ELSE IF name.val # Text("active")
    THEN LET user_label == Subscript(data.val, "user_label") IN
         IF Raised(user_label) THEN Raises(user_label.exc, 1)
         ELSE Returns(StatusResponse(
                PyStr(<<"Wallet ">> \o user_label.val.v
                      \o <<" (data['id']) not active, but ">> \o name.val.v),
                PyInt(0)), 1)
    ELSE LET balance == Subscript(data.val, "balance") IN
         IF Raised(balance) THEN Raises(balance.exc, 1)
         ELSE Returns(StatusResponse(PyNone, PyInt(balance.val.v * 1000)), 1)

LNPayWallet_create_invoice(args, rs) ==
    LET r == rs[1] IN
    IF r.exc # "none" THEN Raises(r.exc, 1)
    ELSE IF r.status_code = 201
    THEN LET data == json_loads(r.body) IN
         IF Raised(data) THEN Raises(data.exc, 1)
         ELSE LET id == Subscript(data.val, "id")
                  payment_request == Subscript(data.val, "payment_request") IN
              IF Raised(id) THEN Raises(id.exc, 1)
              ELSE IF Raised(payment_request) THEN Raises(payment_request.exc, 1)
              ELSE Returns(InvoiceResponseSuccess(id.val, payment_request.val), 1)
    ELSE Returns(InvoiceResponseFailed(r.body.text), 1)

LNPayWallet_pay_invoice(args, rs) ==
    LET r == rs[1] IN
    IF r.exc # "none" THEN Raises(r.exc, 1)
    ELSE LET data == json_loads(r.body) IN
    IF Raised(data)
    THEN Returns(PaymentResponseFailed(
            PyStr(<<"Got invalid JSON: ">> \o SliceTo(r.body.text, 200).v)), 1)
    ELSE IF is_error(r)
    THEN LET message == Subscript(data.val, "message") IN
         IF Raised(message) THEN Raises(message.exc, 1)
         ELSE Returns(PaymentResponseFailed(message.val), 1)
    ELSE LET id == Subscript2(data.val, "lnTx", "id")
             preimage == Subscript2(data.val, "lnTx", "payment_preimage") IN
         IF Raised(id) THEN Raises(id.exc, 1)
         ELSE IF Raised(preimage) THEN Raises(preimage.exc, 1)
         ELSE Returns(PaymentResponseSuccess(id.val, PyInt(0), preimage.val), 1)

LNPayWallet_get_payment_status(rs) ==
    LET r == rs[1] IN
    IF r.exc # "none" THEN Raises(r.exc, 1)
    ELSE IF is_error(r) THEN Returns(PaymentStatusPending, 1)
    ELSE LET data == json_loads(r.body) IN
    IF Raised(data) THEN Raises(data.exc, 1)
    ELSE LET preimage == Subscript(data.val, "payment_preimage") IN
    IF Raised(preimage) THEN Raises(preimage.exc, 1)
    ELSE LET fee_msat == Subscript(data.val, "fee_msat") IN
    IF Raised(fee_msat) THEN Raises(fee_msat.exc, 1)
    ELSE LET settled == Subscript(data.val, "settled") IN
    IF Raised(settled) THEN Raises(settled.exc, 1)
    ELSE Returns(payment_status(LNPayWallet_payment_status_map, settled.val,
                                fee_msat.val, preimage.val), 1)

LNPayWallet_get_invoice_status(rs) == LNPayWallet_get_payment_status(rs)

----------------------------------------------------------------------------
(* ZBDWallet *)

ZBDWallet_payment_status_map ==
    [success |-> {Text("completed"), Text("paid")},
     failed  |-> {Text("failed"), Text("expired")},
     pending |-> {Text("initial"), Text("pending"), Text("error"),
                  Text("unpaid")}]

\* int(s) of a str: the decimal numerals of the model have a value, any other
\* str raises ValueError
Numerals == {<<<<"0">>, 0>>, <<<<"5000">>, 5000>>, <<<<"3">>, 3>>}

int(x) ==
    IF x.t = "int" THEN Ok(x)
    ELSE IF x.t = "str" /\ \E n \in Numerals : n[1] = x.v
    THEN Ok(PyInt((CHOOSE n \in Numerals : n[1] = x.v)[2]))
    ELSE IF x.t = "str" THEN Raise("ValueError")
    ELSE Raise("TypeError")

\* bolt11.decode(invoice).payment_hash: the library decodes a well-formed
\* payment request and raises on any other string
Bolt11 == {<<<<"lnbc1", "abc123">>, <<"abc123">>>>}

bolt11_decode(invoice) ==
    IF \E b \in Bolt11 : b[1] = invoice.v
    THEN Ok(PyStr((CHOOSE b \in Bolt11 : b[1] = invoice.v)[2]))
    ELSE Raise("Bolt11Exception")

ZBDWallet_status(rs) ==
    LET r == rs[1] IN
    IF r.exc # "none"
    THEN IF IsRequestError(r.exc)
         THEN Returns(StatusResponse(
                PyStr(<<"Unable to connect to '">> \o Endpoint.v \o <<"'">>),
                PyInt(0)), 1)
         ELSE Raises(r.exc, 1)
    ELSE LET data == json_loads(r.body) IN
    IF is_error(r)
    THEN IF Raised(data) THEN Raises(data.exc, 1)
         ELSE LET error_message == Subscript(data.val, "message") IN
              IF Raised(error_message) THEN Raises(error_message.exc, 1)
              ELSE Returns(StatusResponse(error_message.val, PyInt(0)), 1)
    ELSE IF Raised(data) THEN Raises(data.exc, 1)
    ELSE LET balance == Subscript2(data.val, "data", "balance") IN
    IF Raised(balance) THEN Raises(balance.exc, 1)
    ELSE LET n == int(balance.val) IN
    IF Raised(n) THEN Raises(n.exc, 1)
    ELSE Returns(StatusResponse(PyNone, n.val), 1)

\* create_invoice past its first statement: the POST to "charges"
ZBDWallet_create_charge(args, rs) ==
    LET r == rs[1] IN
    IF r.exc # "none" THEN Raises(r.exc, 1)
    ELSE LET body == json_loads(r.body) IN
    IF Raised(body) THEN Raises(body.exc, 1)
    ELSE IF is_error(r)
    THEN LET message == Subscript(body.val, "message") IN
         IF Raised(message) THEN Raises(message.exc, 1)
         ELSE Returns(InvoiceResponseFailed(message.val), 1)
    ELSE LET data == Subscript(body.val, "data") IN
    IF Raised(data) THEN Raises(data.exc, 1)
    ELSE LET id == Subscript(data.val, "id")
             request == Subscript2(data.val, "invoice", "request") IN
         IF Raised(id) THEN Raises(id.exc, 1)
         ELSE IF Raised(request) THEN Raises(request.exc, 1)
         ELSE Returns(InvoiceResponseSuccess(id.val, request.val), 1)

ZBDWallet_create_invoice_unchecked(args, rs) ==
    ZBDWallet_create_charge(args, rs)

ZBDWallet_create_invoice(args, rs) ==
    IF Truthy(args.description_hash) \/ Truthy(args.unhashed_description)
    THEN RaisesWith("Unsupported", "description_hash", 0)
    ELSE ZBDWallet_create_charge(args, rs)

ZBDWallet_pay_invoice(args, rs) ==
    LET r == rs[1] IN
    IF r.exc # "none" THEN Raises(r.exc, 1)
    ELSE LET data == json_loads(r.body) IN
    IF Raised(data) THEN Raises(data.exc, 1)
    ELSE IF is_error(r)
    THEN LET error_message == Subscript(data.val, "message") IN
         IF Raised(error_message) THEN Raises(error_message.exc, 1)
         ELSE Returns(PaymentResponseFailed(error_message.val), 1)
    ELSE LET checking_id == bolt11_decode(args.bolt11_invoice) IN
    IF Raised(checking_id) THEN Raises(checking_id.exc, 1)
    ELSE LET fee == Subscript2(data.val, "data", "fee") IN
    IF Raised(fee) THEN Raises(fee.exc, 1)
    ELSE LET n == int(fee.val) IN
    IF Raised(n) THEN Raises(n.exc, 1)
    ELSE LET preimage == Subscript2(data.val, "data", "preimage") IN
    IF Raised(preimage) THEN Raises(preimage.exc, 1)
    ELSE Returns(PaymentResponseSuccess(checking_id.val, PyInt(-n.val.v),
                                        preimage.val), 1)

ZBDWallet_get_invoice_status(rs) ==
    LET r == rs[1] IN
    IF r.exc # "none" THEN Raises(r.exc, 1)
    ELSE IF is_error(r) THEN Returns(PaymentStatusPending, 1)
    ELSE LET body == json_loads(r.body) IN
    IF Raised(body) THEN Raises(body.exc, 1)
    ELSE LET data == Subscript(body.val, "data") IN
    IF Raised(data) THEN Raises(data.exc, 1)
    ELSE LET status == DictGet(data.val, "status", PyNone) IN
    IF Raised(status) THEN Raises(status.exc, 1)
    ELSE Returns(payment_status(ZBDWallet_payment_status_map, status.val,
                                PyNone, PyNone), 1)

ZBDWallet_get_payment_status(rs) ==
    LET r == rs[1] IN
    IF r.exc # "none" THEN Raises(r.exc, 1)
    ELSE IF is_error(r) THEN Returns(PaymentStatusPending, 1)
    ELSE LET body == json_loads(r.body) IN
    IF Raised(body) THEN Raises(body.exc, 1)
    ELSE LET data == Subscript(body.val, "data") IN
    IF Raised(data) THEN Raises(data.exc, 1)
    ELSE LET status == DictGet(data.val, "status", PyNone) IN
    IF Raised(status) THEN Raises(status.exc, 1)
    ELSE Returns(payment_status(ZBDWallet_payment_status_map, status.val,
                                PyNone, PyNone), 1)

----------------------------------------------------------------------------
(* The provider's answers and the callers' arguments *)

Malformed == {NotJson, EmptyText, LongText, Obj({})}

ErrorBodies ==
    {Obj({<<"detail", Text("wallet not found")>>}),
     Obj({<<"message", Text("unauthorized")>>})}

WalletBodies ==
    {Obj({<<"balance", PyInt(5000)>>}),
     Obj({<<"statusType", PyDict({<<"name", Text("active")>>})>>,
          <<"balance", PyInt(5)>>, <<"user_label", Text("main")>>,
          <<"id", Text("w1")>>}),
     Obj({<<"statusType", PyDict({<<"name", Text("inactive")>>})>>,
          <<"balance", PyInt(5)>>, <<"user_label", Text("main")>>,
          <<"id", Text("w1")>>}),
     Obj({<<"statusType", PyDict({<<"name", Text("inactive")>>})>>}),
     Obj({<<"data", PyDict({<<"balance", Text("5000")>>})>>}),
     Obj({<<"data", PyDict({<<"balance", Text("n/a")>>})>>})}

InvoiceBodies ==
    {Obj({<<"checking_id", Text("abc123")>>,
          <<"payment_request", Text("lnbc1")>>}),
     Obj({<<"checking_id", Text("abc123")>>}),
     Obj({<<"id", Text("tx1")>>, <<"payment_request", Text("lnbc1")>>}),
     Obj({<<"data", PyDict({<<"id", Text("ch1")>>,
            <<"invoice", PyDict({<<"request", Text("lnbc1")>>})>>})>>})}

PaymentBodies ==
    {Obj({<<"payment_hash", Text("abc123")>>}),
     Obj({<<"lnTx", PyDict({<<"id", Text("tx1")>>,
            <<"payment_preimage", Text("pre")>>})>>}),
     Obj({<<"data", PyDict({<<"fee", Text("3")>>,
            <<"preimage", Text("pre")>>})>>}),
     Obj({<<"data", PyDict({<<"fee", Text("n/a")>>,
            <<"preimage", Text("pre")>>})>>})}

PaidValues == {PyBool(TRUE), PyBool(FALSE), PyNone}

Details(pending) == PyDict({<<"fee", PyInt(10)>>, <<"pending", PyBool(pending)>>})

LNbitsStatusBodies ==
    {Obj({<<"paid", paid>>, <<"details", Details(pending)>>,
          <<"preimage", Text("pre")>>}) :
        paid \in PaidValues, pending \in BOOLEAN}
    \cup {Obj({<<"paid", paid>>}) : paid \in PaidValues}
    \cup {Obj({<<"details", Details(FALSE)>>, <<"preimage", Text("pre")>>}),
          Obj({<<"paid", PyBool(TRUE)>>, <<"details", PyDict({})>>}),
          Obj({<<"paid", PyBool(TRUE)>>, <<"details", Details(FALSE)>>})}

LNPayStatusBodies ==
    {Obj({<<"settled", PyInt(settled)>>, <<"fee_msat", PyInt(10)>>,
          <<"payment_preimage", Text("pre")>>}) : settled \in {1, -1, 0, 2}}
    \cup {Obj({<<"settled", PyInt(1)>>}),
          Obj({<<"fee_msat", PyInt(10)>>, <<"payment_preimage", Text("pre")>>})}

ZBDStatusTokens ==
    {"completed", "paid", "failed", "expired", "initial", "pending", "error",
     "unpaid", "refunded"}

ZBDStatusBodies ==
    {Obj({<<"data", PyDict({<<"status", Text(status)>>,
            <<"fee", Text("3")>>, <<"preimage", Text("pre")>>})>>}) :
        status \in ZBDStatusTokens}
    \cup {Obj({<<"data", PyDict({<<"fee", Text("3")>>})>>})}

Bodies ==
    Malformed \cup ErrorBodies \cup WalletBodies \cup InvoiceBodies
        \cup PaymentBodies \cup LNbitsStatusBodies \cup LNPayStatusBodies
        \cup ZBDStatusBodies

AllResponses == Responses(Bodies)

\* description_hash and unhashed_description: None, b"", or some bytes
OptionalBytes == {PyNone, PyStr(<<>>), PyStr(<<"h">>)}

InvoiceArgs ==
    [amount : {PyInt(21)}, memo : {PyNone},
     description_hash : OptionalBytes, unhashed_description : OptionalBytes]

PayArgs ==
    [bolt11_invoice : {PyStr(<<"lnbc1", "abc123">>), PyStr(<<"lnbc1", "?">>)},
     fee_limit_msat : {PyInt(1000)}]

CheckArgs == [checking_id : {Text("abc123")}]

NoArgs == <<>>

----------------------------------------------------------------------------
(* The operations as steps: a caller invokes one with some arguments, the     *)
(* provider answers its requests somehow, and the operation returns or raises *)

NoCall == [adapter |-> "none", method |-> "none", args |-> <<>>]

\* The step of one operation, taken when no other call is in progress: rs are
\* the provider's answers to its first and second request, res what the
\* operation makes of them.
Do(adapter, method, args, rs, res) ==
    /\ call' = [adapter |-> adapter, method |-> method, args |-> args]
    /\ outcome' = SubSeq(rs, 1, res.net)
    /\ result' = res.value
    /\ net_calls' = res.net
    /\ UNCHANGED <<streamVars, relayVars, pollVars, cleanupVars>>

LNbitsStatus ==
    /\ call = NoCall
    /\ \E r \in AllResponses :
            Do("LNbitsWallet", "status", NoArgs, <<r>>, LNbitsWallet_status(<<r>>))

LNbitsCreateInvoice ==
    /\ call = NoCall
    /\ \E args \in InvoiceArgs, r \in AllResponses :
            Do("LNbitsWallet", "create_invoice", args, <<r>>,
               LNbitsWallet_create_invoice(args, <<r>>))

LNbitsPayInvoice ==
    /\ call = NoCall
    /\ \E args \in PayArgs, r1 \in AllResponses, r2 \in AllResponses :
            Do("LNbitsWallet", "pay_invoice", args, <<r1, r2>>,
               LNbitsWallet_pay_invoice(args, <<r1, r2>>))

LNbitsGetInvoiceStatus ==
    /\ call = NoCall
    /\ \E args \in CheckArgs, r \in AllResponses :
            Do("LNbitsWallet", "get_invoice_status", args, <<r>>,
               LNbitsWallet_get_invoice_status(<<r>>))

LNbitsGetPaymentStatus ==
    /\ call = NoCall
    /\ \E args \in CheckArgs, r \in AllResponses :
            Do("LNbitsWallet", "get_payment_status", args, <<r>>,
               LNbitsWallet_get_payment_status(<<r>>))

LNPayStatus ==
    /\ call = NoCall
    /\ \E r \in AllResponses :
            Do("LNPayWallet", "status", NoArgs, <<r>>, LNPayWallet_status(<<r>>))

LNPayCreateInvoice ==
    /\ call = NoCall
    /\ \E args \in InvoiceArgs, r \in AllResponses :
            Do("LNPayWallet", "create_invoice", args, <<r>>,
               LNPayWallet_create_invoice(args, <<r>>))

LNPayPayInvoice ==
    /\ call = NoCall
    /\ \E args \in PayArgs, r \in AllResponses :
            Do("LNPayWallet", "pay_invoice", args, <<r>>,
               LNPayWallet_pay_invoice(args, <<r>>))

LNPayGetInvoiceStatus ==
    /\ call = NoCall
    /\ \E args \in CheckArgs, r \in AllResponses :
            Do("LNPayWallet", "get_invoice_status", args, <<r>>,
               LNPayWallet_get_invoice_status(<<r>>))

LNPayGetPaymentStatus ==
    /\ call = NoCall
    /\ \E args \in CheckArgs, r \in AllResponses :
            Do("LNPayWallet", "get_payment_status", args, <<r>>,
               LNPayWallet_get_payment_status(<<r>>))

ZBDStatus ==
    /\ call = NoCall
    /\ \E r \in AllResponses :
            Do("ZBDWallet", "status", NoArgs, <<r>>, ZBDWallet_status(<<r>>))

ZBDCreateInvoice ==
    /\ call = NoCall
    /\ \E args \in InvoiceArgs, r \in AllResponses :
            Do("ZBDWallet", "create_invoice", args, <<r>>,
               ZBDWallet_create_invoice(args, <<r>>))

ZBDPayInvoice ==
    /\ call = NoCall
    /\ \E args \in PayArgs, r \in AllResponses :
            Do("ZBDWallet", "pay_invoice", args, <<r>>,
               ZBDWallet_pay_invoice(args, <<r>>))

ZBDGetInvoiceStatus ==
    /\ call = NoCall
    /\ \E args \in CheckArgs, r \in AllResponses :
            Do("ZBDWallet", "get_invoice_status", args, <<r>>,
               ZBDWallet_get_invoice_status(<<r>>))

ZBDGetPaymentStatus ==
    /\ call = NoCall
    /\ \E args \in CheckArgs, r \in AllResponses :
            Do("ZBDWallet", "get_payment_status", args, <<r>>,
               ZBDWallet_get_payment_status(<<r>>))

\* The caller has the result; the adapter is ready for the next call.
CallReturns ==
    /\ call # NoCall
    /\ call' = NoCall
    /\ outcome' = <<>>
    /\ result' = [kind |-> "none"]
    /\ net_calls' = 0
    /\ UNCHANGED <<streamVars, relayVars, pollVars, cleanupVars>>

----------------------------------------------------------------------------
(* Properties of the request/response operations, under Spec *)

Adapters == {"LNbitsWallet", "LNPayWallet", "ZBDWallet"}

StatusChecks == {"get_invoice_status", "get_payment_status"}

\* The answer to the call's first request is no usable answer: the transport
\* failed, or the body is no JSON, or it is a JSON object with no field at all.
Unusable(r) ==
    \/ r.exc # "none"
    \/ ~r.body.valid
    \/ r.body.json = PyDict({})

\* C6: status() never raises: whatever the provider does, it returns a
\* StatusResponse; and when the transport failed, the status is an error
\* status or the body is unusable, that StatusResponse has a non-empty error
\* and a balance of 0.
C6_StatusNeverRaises ==
    (call.method = "status") =>
        /\ result.kind = "StatusResponse"
        /\ (Unusable(outcome[1]) \/ is_error(outcome[1])) =>
                /\ Truthy(result.error_message)
                /\ result.balance_msat = PyInt(0)

\* The adapter's payment_status_map.
MapOf(adapter) ==
    CASE adapter = "LNbitsWallet" -> LNbitsWallet_payment_status_map
      [] adapter = "LNPayWallet"  -> LNPayWallet_payment_status_map
      [] adapter = "ZBDWallet"    -> ZBDWallet_payment_status_map

\* The status a map gives a native token; a token in none of its lists, and
\* a missing token, are pending.
Canonical(map, token) ==
    IF Raised(token) THEN "PaymentStatusPending"
    ELSE IF token.val \in map.success THEN "PaymentStatusSuccess"
    ELSE IF token.val \in map.failed THEN "PaymentStatusFailed"
    ELSE "PaymentStatusPending"

\* The provider's native status token in a response body: "paid" of LNbits,
\* "settled" of LNPay, "status" under "data" of ZBD.
NativeToken(adapter, json) ==
    CASE adapter = "LNbitsWallet" -> Subscript(json, "paid")
      [] adapter = "LNPayWallet"  -> Subscript(json, "settled")
      [] adapter = "ZBDWallet"    -> Subscript2(json, "data", "status")

\* A well-formed answer to a status check: a 2xx response whose body is a JSON
\* object with every field the adapter reads besides the status token.
WellFormedStatus(adapter, r) ==
    /\ r.exc = "none"
    /\ ~is_error(r)
    /\ r.body.valid
    /\ CASE adapter = "LNbitsWallet" ->
                /\ ~Raised(Subscript2(r.body.json, "details", "fee"))
                /\ ~Raised(Subscript2(r.body.json, "details", "pending"))
                /\ ~Raised(Subscript(r.body.json, "preimage"))
         [] adapter = "LNPayWallet" ->
                /\ ~Raised(Subscript(r.body.json, "fee_msat"))
                /\ ~Raised(Subscript(r.body.json, "payment_preimage"))
         [] adapter = "ZBDWallet" ->
                ~Raised(Subscript(r.body.json, "data"))

\* C7: for a well-formed answer, get_invoice_status and get_payment_status of
\* every adapter return what the adapter's payment_status_map gives the native
\* status token: success, failed or pending, and pending for a token in none
\* of the lists and for a missing token.
C7_StatusFollowsMap ==
    (call.method \in StatusChecks /\ WellFormedStatus(call.adapter, outcome[1]))
        => result.kind = Canonical(MapOf(call.adapter),
                                   NativeToken(call.adapter, outcome[1].body.json))

\* C8: a status check answered by a transport failure, by a body that is no
\* JSON or by a JSON object without the expected fields returns pending: it
\* does not raise, and does not return failed or success.
C8_UnusableIsPending ==
    (call.method \in StatusChecks /\ Unusable(outcome[1]))
        => result.kind = "PaymentStatusPending"

\* C9: create_invoice and pay_invoice answered by a transport failure, by a
\* non-2xx status or by an unusable body return a failed result with an error
\* message: they do not raise, and do not return success.
C9_ProviderFailureIsFailed ==
    (/\ call.method \in {"create_invoice", "pay_invoice"}
     /\ net_calls >= 1
     /\ (Unusable(outcome[1]) \/ is_error(outcome[1])))
        => /\ result.kind \in {"InvoiceResponseFailed", "PaymentResponseFailed"}
           /\ Truthy(result.error_message)

\* C10, as claimed: ZBDWallet.create_invoice called with description_hash or
\* unhashed_description set returns a failed invoice result, without a
\* network call.
C10_UnsupportedReturnsFailed ==
    (/\ call.adapter = "ZBDWallet"
     /\ call.method = "create_invoice"
     /\ (Truthy(call.args.description_hash)
            \/ Truthy(call.args.unhashed_description)))
        => /\ result.kind = "InvoiceResponseFailed"
           /\ net_calls = 0

\* C10, as the code has it: ZBDWallet.create_invoice called with a non-empty
\* description_hash or unhashed_description raises Unsupported, naming
\* description_hash, without a network call.
C10_UnsupportedRaises ==
    (/\ call.adapter = "ZBDWallet"
     /\ call.method = "create_invoice"
     /\ (Truthy(call.args.description_hash)
            \/ Truthy(call.args.unhashed_description)))
        => /\ result = [kind |-> "raise", exc |-> "Unsupported",
                        arg |-> "description_hash"]
           /\ net_calls = 0
           /\ outcome = <<>>

\* ZBDWallet.create_invoice was called with only unhashed_description set.
C10_Witness ==
    /\ call.adapter = "ZBDWallet"
    /\ call.method = "create_invoice"
    /\ call.args.description_hash = PyNone
    /\ Truthy(call.args.unhashed_description)
    /\ result.kind = "raise"

----------------------------------------------------------------------------
(* Several runs of paid_invoices_stream on one LNPayWallet or ZBDWallet *)

KeepQueue(q) == IF q.exists THEN q ELSE NewQueue

\* self.queue = asyncio.Queue(0), whatever self.queue was
InstallQueue(q) == NewQueue

\* The items of the queue object installed as the e-th: of self.queue when it
\* is the present one, of a replaced object otherwise.
ItemsOf(e) == IF e = queue_epoch THEN queue.items ELSE old_queues[e]

\* A generator object of paid_invoices_stream: where it is, the queue it
\* installed, and the queue in whose get() it waits.
NewGenerator == [pc |-> "Created", epoch |-> 0, awaits |-> 0]

Yield(g, e, v) == [gen |-> g, epoch |-> e, value |-> v]

\* paid_invoices_stream() is called: the generator object exists, none of its
\* body has run.
RunCreated ==
    /\ UNCHANGED <<streamVars, callVars>>
    /\ Len(gens) < MaxRuns
    /\ gens' = Append(gens, NewGenerator)
    /\ UNCHANGED <<relay_wallet, relay_pc, queue, pushed, yielded, push_errors,
                   relay_net, queue_epoch, old_queues, push_log, yield_log>>

\* The consumer asks a generator for its first value: self.queue becomes a new
\* queue, the object it replaces keeps what it holds, and the generator waits
\* in the new queue's get().
RunStart ==
    /\ UNCHANGED <<streamVars, callVars>>
    /\ \E g \in 1..Len(gens) :
        /\ gens[g].pc = "Created"
        /\ gens' = [gens EXCEPT ![g] = [pc |-> "Awaiting",
                                        epoch |-> queue_epoch + 1,
                                        awaits |-> queue_epoch + 1]]
    /\ queue' = InstallQueue(queue)
    /\ queue_epoch' = queue_epoch + 1
    /\ old_queues' = IF queue.exists THEN Append(old_queues, queue.items)
                     ELSE old_queues
    /\ UNCHANGED <<relay_wallet, relay_pc, pushed, yielded, push_errors,
                   relay_net, push_log, yield_log>>

\* A generator waiting in get() of a queue object that holds something takes
\* the oldest item and yields it; the object may have been replaced as
\* self.queue meanwhile.
RunGet ==
    /\ UNCHANGED <<streamVars, callVars>>
    /\ \E g \in 1..Len(gens) :
        /\ gens[g].pc = "Awaiting"
        /\ ItemsOf(gens[g].awaits) # <<>>
        /\ LET e == gens[g].awaits
               v == Head(ItemsOf(e))
           IN
            /\ IF e = queue_epoch
               THEN /\ queue' = QueueGet(queue).queue
                    /\ UNCHANGED old_queues
               ELSE /\ old_queues' = [old_queues EXCEPT ![e] = Tail(@)]
                    /\ UNCHANGED queue
            /\ yield_log' = Append(yield_log, Yield(g, e, v))
            /\ yielded' = Append(yielded, v)
        /\ gens' = [gens EXCEPT ![g].pc = "Suspended", ![g].awaits = 0]
    /\ UNCHANGED <<relay_wallet, relay_pc, pushed, push_errors, relay_net,
                   queue_epoch, push_log>>

\* The consumer asks a generator suspended at its yield for the next value:
\* the loop calls get() of what self.queue is now, which returns at once when
\* that queue holds something and waits otherwise.
RunNext ==
    /\ UNCHANGED <<streamVars, callVars>>
    /\ \E g \in 1..Len(gens) :
        /\ gens[g].pc = "Suspended"
        /\ IF queue.items # <<>>
           THEN LET got == QueueGet(queue) IN
                /\ queue' = got.queue
                /\ yield_log' = Append(yield_log,
                                       Yield(g, queue_epoch, got.value))
                /\ yielded' = Append(yielded, got.value)
                /\ UNCHANGED gens
           ELSE /\ gens' = [gens EXCEPT ![g].pc = "Awaiting",
                                        ![g].awaits = queue_epoch]
                /\ UNCHANGED <<queue, yield_log, yielded>>
    /\ UNCHANGED <<relay_wallet, relay_pc, pushed, push_errors, relay_net,
                   queue_epoch, old_queues, push_log>>

\* The webhook receiver delivers a settled payment hash: put on what
\* self.queue is now. Without the attribute the put fails in the receiver.
RunsPush ==
    /\ UNCHANGED <<streamVars, callVars>>
    /\ Len(pushed) + push_errors < MaxPush
    /\ \E v \in Hashes :
        IF queue.exists
        THEN /\ ~QueueFull(queue)
             /\ queue' = [queue EXCEPT !.items = Append(@, v)]
             /\ pushed' = Append(pushed, v)
             /\ push_log' = Append(push_log, <<queue_epoch, v>>)
             /\ UNCHANGED push_errors
        ELSE /\ push_errors' = push_errors + 1
             /\ UNCHANGED <<queue, pushed, push_log>>
    /\ UNCHANGED <<relay_wallet, relay_pc, yielded, relay_net, gens,
                   queue_epoch, old_queues, yield_log>>

NextRuns ==
    \/ RunCreated
    \/ RunStart
    \/ RunGet
    \/ RunNext
    \/ RunsPush

----------------------------------------------------------------------------
(* Properties of the runs, under SpecRuns *)

\* The values put on the e-th queue object, in the order of the puts.
PushedTo(e) ==
    LET puts == SelectSeq(push_log, LAMBDA p : p[1] = e) IN
    [i \in 1..Len(puts) |-> puts[i][2]]

\* The values taken from the e-th queue object, in the order they were taken.
YieldedFrom(e) ==
    LET gets == SelectSeq(yield_log, LAMBDA y : y.epoch = e) IN
    [i \in 1..Len(gets) |-> gets[i].value]

\* C14: self.queue does not exist until some generator of paid_invoices_stream
\* was asked for its first value, and until then a push delivers nothing;
\* every run that starts installs a new empty queue; and what a stream yields
\* was put on the queue it installed or on a later one, never on a queue that
\* was replaced before it started: every queue object holds exactly what was
\* put on it and not taken from it.
C14_FreshQueuePerRun ==
    /\ [](queue.exists <=> \E g \in 1..Len(gens) : gens[g].pc # "Created")
    /\ [](~queue.exists => push_log = <<>> /\ yield_log = <<>>)
    /\ [][queue_epoch' # queue_epoch => queue' = NewQueue]_vars
    /\ [](\A i \in 1..Len(yield_log) :
            yield_log[i].epoch >= gens[yield_log[i].gen].epoch)
    /\ [](\A e \in 1..queue_epoch :
            PushedTo(e) = YieldedFrom(e) \o ItemsOf(e))

\* A push found no queue; the first run's queue was replaced while it held a
\* value, which is still there; and the second run yielded a value put later.
C14_Witness ==
    /\ push_errors >= 1
    /\ queue_epoch >= 2
    /\ old_queues[1] # <<>>
    /\ \E i \in 1..Len(yield_log) :
        /\ yield_log[i].epoch = 2
        /\ gens[yield_log[i].gen].epoch = 2

----------------------------------------------------------------------------
(* get_payment_status polled for one checking_id, while the provider settles *)
(* the payment                                                               *)

\* What the provider answers for a payment it has not settled.
UnsettledBodies(adapter) ==
    CASE adapter = "LNbitsWallet" ->
            {Obj({<<"paid", PyBool(FALSE)>>, <<"details", Details(pending)>>,
                  <<"preimage", PyNone>>}) : pending \in BOOLEAN}
      [] adapter = "LNPayWallet" ->
            {Obj({<<"settled", PyInt(0)>>, <<"fee_msat", PyInt(0)>>,
                  <<"payment_preimage", PyNone>>})}
      [] adapter = "ZBDWallet" ->
            {Obj({<<"data", PyDict({<<"status", Text(status)>>,
                    <<"fee", Text("0")>>, <<"preimage", PyNone>>})>>}) :
                status \in {"initial", "pending"}}

\* What the provider answers once it has settled the payment: the adapter's
\* success token, the fee and the preimage.
SettledBodies(adapter) ==
    CASE adapter = "LNbitsWallet" ->
            {Obj({<<"paid", PyBool(TRUE)>>, <<"details", Details(FALSE)>>,
                  <<"preimage", Text("pre")>>})}
      [] adapter = "LNPayWallet" ->
            {Obj({<<"settled", PyInt(1)>>, <<"fee_msat", PyInt(10)>>,
                  <<"payment_preimage", Text("pre")>>})}
      [] adapter = "ZBDWallet" ->
            {Obj({<<"data", PyDict({<<"status", Text(status)>>,
                    <<"fee", Text("3")>>, <<"preimage", Text("pre")>>})>>}) :
                status \in {"completed", "paid"}}

ProviderBodies(adapter, is_settled) ==
    IF is_settled THEN SettledBodies(adapter) ELSE UnsettledBodies(adapter)

\* The preimage field of the provider's answer.
ProviderPreimage(adapter, json) ==
    CASE adapter = "LNbitsWallet" -> Subscript(json, "preimage")
      [] adapter = "LNPayWallet"  -> Subscript(json, "payment_preimage")
      [] adapter = "ZBDWallet"    -> Subscript2(json, "data", "preimage")

\* The fee field of the provider's answer.
ProviderFee(adapter, json) ==
    CASE adapter = "LNbitsWallet" -> Subscript2(json, "details", "fee")
      [] adapter = "LNPayWallet"  -> Subscript(json, "fee_msat")
      [] adapter = "ZBDWallet"    -> Subscript2(json, "data", "fee")

\* Two Python values are the same value of the same type.
Same(a, b) == a.t = b.t /\ a.v = b.v

NoResponse == [exc |-> "awaiting", status_code |-> 0, body |-> EmptyText]

\* A poll whose request is in flight.
Awaiting(adapter) ==
    [adapter |-> adapter, pc |-> "awaiting", response |-> NoResponse,
     result |-> [kind |-> "none"]]

\* The poll once its request was answered by r and the operation made res of
\* it.
Returned(poll, r, res) ==
    [poll EXCEPT !.pc = "returned", !.response = r, !.result = res.value]

\* get_payment_status(checking_id) is called on some adapter and awaits
\* self.client.get(...); other polls may be in flight.
PollSent ==
    /\ UNCHANGED <<streamVars, relayVars, rpcVars, cleanupVars>>
    /\ Len(polls) < MaxPolls
    /\ \E adapter \in Adapters : polls' = Append(polls, Awaiting(adapter))
    /\ UNCHANGED provider_settled

\* The provider answers a poll of LNbitsWallet from its present state, and
\* the operation runs to its return.
LNbitsPollReturns ==
    /\ UNCHANGED <<streamVars, relayVars, rpcVars, cleanupVars>>
    /\ \E i \in 1..Len(polls) :
        /\ polls[i].adapter = "LNbitsWallet"
        /\ polls[i].pc = "awaiting"
        /\ \E body \in ProviderBodies("LNbitsWallet", provider_settled) :
            LET r == Response(200, body) IN
            polls' = [polls EXCEPT ![i] =
                        Returned(@, r, LNbitsWallet_get_payment_status(<<r>>))]
    /\ UNCHANGED provider_settled

\* The same for a poll of LNPayWallet.
LNPayPollReturns ==
    /\ UNCHANGED <<streamVars, relayVars, rpcVars, cleanupVars>>
    /\ \E i \in 1..Len(polls) :
        /\ polls[i].adapter = "LNPayWallet"
        /\ polls[i].pc = "awaiting"
        /\ \E body \in ProviderBodies("LNPayWallet", provider_settled) :
            LET r == Response(200, body) IN
            polls' = [polls EXCEPT ![i] =
                        Returned(@, r, LNPayWallet_get_payment_status(<<r>>))]
    /\ UNCHANGED provider_settled

\* The same for a poll of ZBDWallet.
ZBDPollReturns ==
    /\ UNCHANGED <<streamVars, relayVars, rpcVars, cleanupVars>>
    /\ \E i \in 1..Len(polls) :
        /\ polls[i].adapter = "ZBDWallet"
        /\ polls[i].pc = "awaiting"
        /\ \E body \in ProviderBodies("ZBDWallet", provider_settled) :
            LET r == Response(200, body) IN
            polls' = [polls EXCEPT ![i] =
                        Returned(@, r, ZBDWallet_get_payment_status(<<r>>))]
    /\ UNCHANGED provider_settled

\* The provider settles the payment.
ProviderSettles ==
    /\ UNCHANGED <<streamVars, relayVars, rpcVars, cleanupVars>>
    /\ ~provider_settled
    /\ provider_settled' = TRUE
    /\ UNCHANGED polls

NextPoll ==
    \/ PollSent
    \/ LNbitsPollReturns
    \/ LNPayPollReturns
    \/ ZBDPollReturns
    \/ ProviderSettles

----------------------------------------------------------------------------
(* Properties of the polls, under SpecPoll *)

\* The poll was answered after the provider settled the payment.
AnsweredSettled(poll) ==
    /\ poll.pc = "returned"
    /\ poll.response.body \in SettledBodies(poll.adapter)

\* The poll was answered while the payment was not settled.
AnsweredUnsettled(poll) ==
    /\ poll.pc = "returned"
    /\ poll.response.body \in UnsettledBodies(poll.adapter)

\* The poll returned success with the fee and the preimage of the answer.
SuccessWithFields(poll) ==
    /\ poll.result.kind = "PaymentStatusSuccess"
    /\ poll.result.fee_msat.t # "None"
    /\ Same(poll.result.preimage,
            ProviderPreimage(poll.adapter, poll.response.body.json).val)

\* C11: of any number of polls of one checking_id, sequential or interleaved,
\* on any adapter, each one answered while the provider has the payment
\* unsettled returns pending, and each one answered after the provider settled
\* it returns success with fee_msat and preimage populated from the answer.
C11_PollsFollowSettlement ==
    \A i \in 1..Len(polls) :
        /\ AnsweredUnsettled(polls[i]) => polls[i].result = PaymentStatusPending
        /\ AnsweredSettled(polls[i]) => SuccessWithFields(polls[i])

\* What holds of the code: every poll answered before settlement returns
\* pending, every poll answered after it returns success, with the fee and
\* preimage of the answer on LNbitsWallet and LNPayWallet; and a poll's return
\* changes nothing but the poll itself.
PollsFollowSettlementStatus ==
    /\ [](\A i \in 1..Len(polls) :
            /\ AnsweredUnsettled(polls[i]) =>
                    polls[i].result = PaymentStatusPending
            /\ AnsweredSettled(polls[i]) =>
                    /\ polls[i].result.kind = "PaymentStatusSuccess"
                    /\ polls[i].adapter # "ZBDWallet" =>
                            /\ SuccessWithFields(polls[i])
                            /\ Same(polls[i].result.fee_msat,
                                    ProviderFee(polls[i].adapter,
                                                polls[i].response.body.json).val))
    /\ [][\A i \in 1..Len(polls) :
            (polls[i].pc = "returned" => polls'[i] = polls[i])
            /\ (polls'[i] # polls[i] => provider_settled' = provider_settled)]_vars

----------------------------------------------------------------------------
(* cleanup() of the three adapters *)

\* What closing the transport of self.client can fail with.
CloseFailures == {"RuntimeError", "OSError", "CloseError"}

\* httpx.AsyncClient.aclose(): a client that is closed already returns at
\* once; an open one is marked closed, and closing its transport succeeds
\* ("none") or fails.
aclose(closed) == IF closed THEN {"none"} ELSE {"none"} \cup CloseFailures

\* except RuntimeError as e
CleanupCaught(exc) == exc = "RuntimeError"

\* One call of cleanup() in which self.client.aclose() ends with failure:
\* a caught failure is logged as a warning, any other leaves cleanup().
Cleanup(adapter, failure) ==
    /\ client_closed' = [client_closed EXCEPT ![adapter] = TRUE]
    /\ cleanup_log' = Append(cleanup_log,
            [adapter |-> adapter,
             failure |-> failure,
             was_closed |-> client_closed[adapter],
             logged  |-> failure # "none" /\ CleanupCaught(failure),
             raised  |-> IF failure # "none" /\ ~CleanupCaught(failure)
                         THEN failure ELSE "none"])
    /\ UNCHANGED <<streamVars, relayVars, rpcVars, pollVars>>

LNbitsCleanup ==
    /\ Len(cleanup_log) < MaxCleanups
    /\ \E failure \in aclose(client_closed["LNbitsWallet"]) :
            Cleanup("LNbitsWallet", failure)

LNPayCleanup ==
    /\ Len(cleanup_log) < MaxCleanups
    /\ \E failure \in aclose(client_closed["LNPayWallet"]) :
            Cleanup("LNPayWallet", failure)

ZBDCleanup ==
    /\ Len(cleanup_log) < MaxCleanups
    /\ \E failure \in aclose(client_closed["ZBDWallet"]) :
            Cleanup("ZBDWallet", failure)

NextCleanup ==
    \/ LNbitsCleanup
    \/ LNPayCleanup
    \/ ZBDCleanup

----------------------------------------------------------------------------
(* Properties of cleanup(), under SpecCleanup *)

\* C12: after any number of calls of cleanup() the adapter's client is
\* closed, as after one call, and no call raised: every failure of the close
\* was logged and none left cleanup().
C12_CleanupNeverRaises ==
    \A i \in 1..Len(cleanup_log) :
        /\ client_closed[cleanup_log[i].adapter]
        /\ cleanup_log[i].raised = "none"
        /\ cleanup_log[i].failure # "none" => cleanup_log[i].logged

\* What holds of the code: cleanup() releases the client and is idempotent,
\* a second call finds the client closed, and leaves it closed without a
\* failure; and a RuntimeError of the close is logged and not raised.
CleanupIdempotentAndCatchesRuntimeError ==
    /\ [](\A i \in 1..Len(cleanup_log) :
            /\ client_closed[cleanup_log[i].adapter]
            /\ cleanup_log[i].was_closed =>
                    /\ cleanup_log[i].failure = "none"
                    /\ cleanup_log[i].raised = "none"
            /\ cleanup_log[i].failure = "RuntimeError" =>
                    /\ cleanup_log[i].logged
                    /\ cleanup_log[i].raised = "none")
    /\ [][\A a \in Adapters : client_closed[a] => client_closed'[a]]_vars

----------------------------------------------------------------------------
(* Properties of LNbitsWallet.pay_invoice, under Spec *)

\* The call is LNbitsWallet.pay_invoice and its POST was answered.
PayInvoiceAnswered ==
    /\ call.adapter = "LNbitsWallet"
    /\ call.method = "pay_invoice"
    /\ outcome[1].exc = "none"

\* The result is a success whose checking_id is the payment_hash of the POST's
\* answer and whose fee_msat and preimage are those of get_payment_status on
\* the answer to the second request.
SuccessFromLookup ==
    /\ result.kind = "PaymentResponseSuccess"
    /\ net_calls = 2
    /\ Same(result.checking_id,
            Subscript(outcome[1].body.json, "payment_hash").val)
    /\ LET payment == LNbitsWallet_get_payment_status(<<outcome[2]>>).value IN
        /\ Same(result.fee_msat, payment.fee_msat)
        /\ Same(result.preimage, payment.preimage)
        /\ payment.kind = "PaymentStatusPending" =>
                /\ result.fee_msat = PyNone
                /\ result.preimage = PyNone

\* C13: LNbitsWallet.pay_invoice issues the status lookup only after a
\* non-error answer to the POST: on an error answer the result is failed and
\* there was no lookup; on a non-error answer the result is always a success
\* with the answer's payment_hash and the lookup's fee_msat and preimage, both
\* unset when the lookup returns pending.
C13_LookupOnlyAfterPostSuccess ==
    PayInvoiceAnswered =>
        IF is_error(outcome[1])
        THEN /\ result.kind = "PaymentResponseFailed"
             /\ net_calls = 1
        ELSE SuccessFromLookup

\* What holds of the code: a lookup is made only after a non-error answer to
\* the POST, and whenever pay_invoice returns, it returns as C13 says.
PayInvoiceLookupWhenItReturns ==
    /\ (call.adapter = "LNbitsWallet" /\ call.method = "pay_invoice"
            /\ net_calls = 2)
        => (outcome[1].exc = "none" /\ ~is_error(outcome[1]))
    /\ (PayInvoiceAnswered /\ result.kind # "raise") =>
            IF is_error(outcome[1])
            THEN /\ result.kind = "PaymentResponseFailed"
                 /\ net_calls = 1
            ELSE SuccessFromLookup

----------------------------------------------------------------------------
(* Specifications *)

StreamIdle ==
    /\ sse_pc = "Created"
    /\ sse_trigger = FALSE
    /\ client_open = FALSE
    /\ conn = 0
    /\ received = <<>>
    /\ emitted = <<>>
    /\ failures = 0
    /\ sse_exc = "none"
    /\ cancelled = FALSE

RelayIdle ==
    /\ relay_pc = "Created"
    /\ queue = NoQueue
    /\ pushed = <<>>
    /\ yielded = <<>>
    /\ push_errors = 0
    /\ relay_net = 0
    /\ gens = <<>>
    /\ queue_epoch = 0
    /\ old_queues = <<>>
    /\ push_log = <<>>
    /\ yield_log = <<>>

CallsIdle ==
    /\ call = NoCall
    /\ outcome = <<>>
    /\ result = [kind |-> "none"]
    /\ net_calls = 0
    /\ provider_settled = FALSE
    /\ polls = <<>>
    /\ client_closed = [adapter \in {"LNbitsWallet", "LNPayWallet", "ZBDWallet"} |-> FALSE]
    /\ cleanup_log = <<>>

\* The stream of LNbitsWallet, from the generator's creation.
InitStream ==
    /\ StreamIdle
    /\ relay_wallet = "LNPayWallet"
    /\ RelayIdle
    /\ CallsIdle

SpecStream == InitStream /\ [][NextStream]_vars

\* The relay stream of LNPayWallet or ZBDWallet, from the generator's
\* creation. The consumer keeps iterating: a generator that can take its next
\* step eventually does.
InitRelay ==
    /\ StreamIdle
    /\ relay_wallet \in RelayWallets
    /\ RelayIdle
    /\ CallsIdle

SpecRelay ==
    /\ InitRelay
    /\ [][NextRelay]_vars
    /\ WF_vars(RelayStart)
    /\ WF_vars(RelayGet)

\* The request/response operations of the three adapters.
Init ==
    /\ StreamIdle
    /\ relay_wallet = "LNPayWallet"
    /\ RelayIdle
    /\ CallsIdle

Next ==
    \/ LNbitsStatus
    \/ LNbitsCreateInvoice
    \/ LNbitsPayInvoice
    \/ LNbitsGetInvoiceStatus
    \/ LNbitsGetPaymentStatus
    \/ LNPayStatus
    \/ LNPayCreateInvoice
    \/ LNPayPayInvoice
    \/ LNPayGetInvoiceStatus
    \/ LNPayGetPaymentStatus
    \/ ZBDStatus
    \/ ZBDCreateInvoice
    \/ ZBDPayInvoice
    \/ ZBDGetInvoiceStatus
    \/ ZBDGetPaymentStatus
    \/ CallReturns

Spec == Init /\ [][Next]_vars

\* Polls of get_payment_status for one checking_id on the three adapters,
\* from a payment the provider has not settled.
InitPoll ==
    /\ StreamIdle
    /\ relay_wallet = "LNPayWallet"
    /\ RelayIdle
    /\ CallsIdle

SpecPoll == InitPoll /\ [][NextPoll]_vars

\* cleanup() called on the three adapters, from their construction.
InitCleanup ==
    /\ StreamIdle
    /\ relay_wallet = "LNPayWallet"
    /\ RelayIdle
    /\ CallsIdle

SpecCleanup == InitCleanup /\ [][NextCleanup]_vars

\* Runs of paid_invoices_stream on one LNPayWallet or ZBDWallet, from the
\* adapter's construction.
InitRuns ==
    /\ StreamIdle
    /\ relay_wallet \in RelayWallets
    /\ RelayIdle
    /\ CallsIdle

SpecRuns == InitRuns /\ [][NextRuns]_vars

====
